---- MODULE Spec2Model ----
(***************************************************************************)
(* Model of ScoutOrchestrator.forward                                      *)
(* (src/post5-dspy-orchestration-tool-sprawl.py, lines 320-402): plan      *)
(* validation, intent routing, context threading and answer synthesis.     *)
(*                                                                         *)
(* Python strings are sequences of one-character strings, so that          *)
(* str.lower, str.upper, f-string formatting, concatenation and join are   *)
(* computed character by character.  A Python dict is a function whose     *)
(* DOMAIN is the set of keys that are present; the values the planner puts *)
(* in it are tagged with their Python type, text or None.                  *)
(***************************************************************************)
EXTENDS Integers, Sequences, FiniteSets, TLC

(***************************************************************************)
(* Bounds of the model.                                                    *)
(***************************************************************************)
\* Longest raw plan over the whole set of raw steps (malformed ones included).
MaxPlanLen == 2
\* Longest raw plan over the well-formed raw steps.
MaxLongPlanLen == 3
\* Longest raw plan of a call that runs concurrently with another call.
MaxConcPlanLen == 2

\* Orchestration calls: call 1 is the call of the sequential specification.
Calls == {1, 2}
SingleCall == {1}

(***************************************************************************)
(* Text helpers (Python str semantics on the characters the model uses).   *)
(***************************************************************************)
LowerChars ==
  <<"a","b","c","d","e","f","g","h","i","j","k","l","m",
    "n","o","p","q","r","s","t","u","v","w","x","y","z">>
UpperChars ==
  <<"A","B","C","D","E","F","G","H","I","J","K","L","M",
    "N","O","P","Q","R","S","T","U","V","W","X","Y","Z">>
Digits == <<"0","1","2","3","4","5","6","7","8","9">>

\* str.lower / str.upper on one character.
LowerChar(ch) ==
  IF \E k \in 1..26 : UpperChars[k] = ch
  THEN LowerChars[CHOOSE k \in 1..26 : UpperChars[k] = ch]
  ELSE ch
UpperChar(ch) ==
  IF \E k \in 1..26 : LowerChars[k] = ch
  THEN UpperChars[CHOOSE k \in 1..26 : LowerChars[k] = ch]
  ELSE ch

\* str.lower() (line 356) and str.upper() (line 394).
Lower(s) == [k \in 1..Len(s) |-> LowerChar(s[k])]
Upper(s) == [k \in 1..Len(s) |-> UpperChar(s[k])]

\* str(i) as the f-string of line 386 formats the loop index.
RECURSIVE IntToStr(_)
IntToStr(n) ==
  IF n < 10 THEN <<Digits[n + 1]>>
  ELSE IntToStr(n \div 10) \o <<Digits[(n % 10) + 1]>>

\* sep.join(parts) (line 396).
RECURSIVE Join(_, _)
Join(sep, parts) ==
  IF parts = <<>> THEN <<>>
  ELSE IF Len(parts) = 1 THEN parts[1]
  ELSE parts[1] \o sep \o Join(sep, Tail(parts))

\* Values of the planner's dicts: a text (str) or None.
Str(text) == [kind |-> "str", text |-> text]
NoneValue == [kind |-> "none", text |-> <<>>]
\* The value has the method lower(), i.e. it is a str.
IsStr(v) == v.kind = "str"

\* dict.get(key, default) (lines 356, 363).
Get(d, key, default) == IF key \in DOMAIN d THEN d[key] ELSE default

(***************************************************************************)
(* Text literals.                                                          *)
(***************************************************************************)
SEARCH   == <<"s","e","a","r","c","h">>
RETRIEVE == <<"r","e","t","r","i","e","v","e">>
ANALYZE  == <<"a","n","a","l","y","z","e">>
EmptyStr == <<>>

\* self.agents (lines 326-330): intent name -> registered agent.
AgentRegistry ==
  (SEARCH :> "SearchAgent") @@ (RETRIEVE :> "RetrieveAgent")
    @@ (ANALYZE :> "AnalyzeAgent")

\* The hard-coded default intent of lines 356, 360 and 370.
DefaultIntent == SEARCH

(***************************************************************************)
(* Inputs: questions, raw plans of the planner, answers of the agents.     *)
(***************************************************************************)
Questions == { <<"w","h","o","?">> }

RawIntents ==
  { SEARCH, RETRIEVE,
    <<"A","n","a","l","y","z","e">>,
    <<"s","u","m","m","a","r","i","z","e">> }
RawSubqueries == { EmptyStr, <<"f","i","n","d">> }

\* The values the planner gives to the key "intent": a text or None.
RawIntentValues == { Str(a) : a \in RawIntents } \cup { NoneValue }

\* A raw step is a dict in which either key may be absent.
RawSteps ==
  { [k \in D |-> IF k = "intent" THEN a ELSE Str(s)] :
      D \in SUBSET {"intent", "subquery"}, a \in RawIntentValues,
      s \in RawSubqueries }

\* Well-formed raw steps: a known intent and a subquery.
WellFormedSteps ==
  { [k \in {"intent", "subquery"} |->
       IF k = "intent" THEN Str(a) ELSE Str(<<"f","i","n","d">>)] :
      a \in {SEARCH, RETRIEVE, ANALYZE} }

\* Raw plans of the planner: short plans over every raw step and longer
\* plans over the well-formed ones.
RawPlans ==
  UNION { [1..n -> RawSteps] : n \in 0..MaxPlanLen }
    \cup UNION { [1..n -> WellFormedSteps] : n \in 0..MaxLongPlanLen }

Answers == { <<"S","1">>, <<"S","2">> }

\* Concurrent calls: each call has its own question, and the planner gives
\* it a plan over a retrieve step and a step without keys (validated to a
\* search for the question of the call).
ConcQuestion == (1 :> <<"w","h","o","?">>) @@ (2 :> <<"f","i","x">>)
ConcSteps ==
  { [k \in D |-> IF k = "intent" THEN Str(RETRIEVE)
                  ELSE Str(<<"f","i","n","d">>)] :
      D \in { {}, {"intent", "subquery"} } }
ConcPlans == UNION { [1..n -> ConcSteps] : n \in 0..MaxConcPlanLen }

(***************************************************************************)
(* Pure parts of forward.                                                  *)
(***************************************************************************)
\* PlanStep(subquery=..., intent=...) (lines 227-231).  The subquery is the
\* value taken from the dict (or the question), the intent a text.
PlanStep(subquery, intent) == [subquery |-> subquery, intent |-> intent]

\* ValidateStep that puts the question in place of the subquery whenever it
\* repairs the intent.
ValidateStepResetsSubquery(step_dict, q, registry) ==
  LET intent == Lower(Get(step_dict, "intent", Str(SEARCH)).text)
  IN IF intent \notin DOMAIN registry
     THEN PlanStep(Str(q), SEARCH)
     ELSE PlanStep(Get(step_dict, "subquery", Str(q)), intent)

\* ValidateStep that tests the raw intent against the registry as written.
ValidateStepCaseSensitive(step_dict, q, registry) ==
  LET intent == Get(step_dict, "intent", Str(SEARCH)).text
  IN PlanStep(Get(step_dict, "subquery", Str(q)),
              IF intent \notin DOMAIN registry THEN SEARCH ELSE intent)

\* .lower() of line 356 raises AttributeError: the intent of the raw step
\* is not a text.
StepRaises(step_dict) == ~IsStr(Get(step_dict, "intent", Str(SEARCH)))

\* Body of the conversion loop for one raw step (lines 356-365), for a raw
\* step on which line 356 does not raise.
ValidateStep(step_dict, q, registry) ==
  LET intent == Lower(Get(step_dict, "intent", Str(SEARCH)).text)
  IN PlanStep(Get(step_dict, "subquery", Str(q)),
              IF intent \notin DOMAIN registry THEN SEARCH ELSE intent)

\* Validate whose fallback step is routed to another intent than "search".
ValidateFallbackRetrieve(raw, q, registry) ==
  LET converted == [k \in 1..Len(raw) |-> ValidateStep(raw[k], q, registry)]
  IN IF converted = <<>> THEN <<PlanStep(Str(q), RETRIEVE)>> ELSE converted

\* Validate that drops the raw steps whose intent is unknown.
ValidateDropsUnknown(raw, q, registry) ==
  LET known == SelectSeq(raw, LAMBDA step_dict :
                  Lower(Get(step_dict, "intent", Str(SEARCH)).text) \in DOMAIN registry)
      converted == [k \in 1..Len(known) |-> ValidateStep(known[k], q, registry)]
  IN IF converted = <<>> THEN <<PlanStep(Str(q), SEARCH)>> ELSE converted

\* Conversion loop and empty-plan fallback (lines 354-370), for a raw plan
\* on which line 356 never raises.
Validate(raw, q, registry) ==
  LET converted == [k \in 1..Len(raw) |-> ValidateStep(raw[k], q, registry)]
  IN IF converted = <<>> THEN <<PlanStep(Str(q), SEARCH)>> ELSE converted

\* StepResult that numbers the steps from 1.
StepResultOneBased(idx, step, answer) ==
  [step_id |-> idx + 1, step |-> step, answer |-> answer]

\* The print calls of the conversion loop (line 359): one warning per raw
\* step whose lower-cased intent is unknown.
ConversionWarnings(raw, registry) ==
  LET unknown == SelectSeq(raw, LAMBDA step_dict :
                    Lower(Get(step_dict, "intent", Str(SEARCH)).text)
                      \notin DOMAIN registry)
  IN [k \in 1..Len(unknown) |-> "unknown_intent"]

\* The print calls of validation (lines 359, 369): the warnings of the
\* loop, then one if no step was converted.
ValidationWarnings(raw, registry) ==
  ConversionWarnings(raw, registry)
    \o (IF raw = <<>> THEN <<"empty_plan">> ELSE <<>>)

\* Position of the first raw step on which line 356 raises, 0 if none.
FirstRaising(raw) ==
  IF \E k \in 1..Len(raw) : StepRaises(raw[k])
  THEN CHOOSE k \in 1..Len(raw) :
         /\ StepRaises(raw[k])
         /\ \A l \in 1..(k - 1) : ~StepRaises(raw[l])
  ELSE 0

\* context or "No previous context" inside the agents (lines 257, 277, 297).
ReactContext(context) ==
  IF context = EmptyStr
  THEN <<"N","o"," ","p","r","e","v","i","o","u","s"," ",
         "c","o","n","t","e","x","t">>
  ELSE context

\* The dict appended to step_results (lines 379-383).
StepResult(idx, step, answer) ==
  [step_id |-> idx, step |-> step, answer |-> answer]

\* f"\nStep {i} ({step.intent}): {result.answer}\n" (line 386).
ContextEntry(idx, step, answer) ==
  <<"\n","S","t","e","p"," ">> \o IntToStr(idx) \o <<" ","(">>
    \o step.intent \o <<")",":"," ">> \o answer \o <<"\n">>

\* ExtendContext that assigns instead of appending.
ExtendContextOverwrites(ctx, idx, step, answer) ==
  ContextEntry(idx, step, answer)

\* ExtendContext that puts the newest entry first.
ExtendContextPrepends(ctx, idx, step, answer) ==
  ContextEntry(idx, step, answer) \o ctx

\* accumulated_context += ... (line 386).
ExtendContext(ctx, idx, step, answer) == ctx \o ContextEntry(idx, step, answer)

\* f"**{intent_label}**: {sr['answer']}" (lines 394-395).
LabeledAnswer(sr) ==
  <<"*","*">> \o Upper(sr.step.intent) \o <<"*","*",":"," ">> \o sr.answer

\* Synthesize that labels the answer of a single-step plan too.
SynthesizeAlwaysLabels(results) ==
  Join(<<"\n","\n">>, [k \in 1..Len(results) |-> LabeledAnswer(results[k])])

\* Synthesize that joins the labeled answers last step first.
SynthesizeReversed(results) ==
  IF Len(results) = 1 THEN results[1].answer
  ELSE Join(<<"\n","\n">>,
            [k \in 1..Len(results) |->
               LabeledAnswer(results[Len(results) + 1 - k])])

\* Synthesis of the final answer (lines 389-396).
Synthesize(results) ==
  IF Len(results) = 1 THEN results[1].answer
  ELSE Join(<<"\n","\n">>, [k \in 1..Len(results) |-> LabeledAnswer(results[k])])

\* LoopDone that leaves the loop after the first step.
LoopDoneAfterFirst(idx, plan) == idx >= 1

\* The for loop of line 376 is exhausted.
LoopDone(idx, plan) == idx >= Len(plan)

(***************************************************************************)
(* State.                                                                  *)
(***************************************************************************)
VARIABLES
  agents,               \* self.agents, shared by all calls
  pc,                   \* position of each call inside forward
  question,             \* argument of forward
  plan_result,          \* plan_result.plan returned by the planner
  steps,                \* validated plan
  step_results,         \* result log
  accumulated_context,  \* context threaded through the steps
  i,                    \* loop index of enumerate(steps)
  result,               \* result.answer of the agent call in progress
  final_answer,         \* answer of the returned Prediction
  agent_calls,          \* log of agent invocations: agent, arguments, answer
  warnings              \* warnings printed by validation

vars == <<agents, pc, question, plan_result, steps, step_results,
          accumulated_context, i, result, final_answer, agent_calls,
          warnings>>

NoAnswer == <<"<","n","o","n","e",">">>

Init ==
  /\ agents = AgentRegistry
  /\ pc = [c \in Calls |-> "idle"]
  /\ question = [c \in Calls |-> EmptyStr]
  /\ plan_result = [c \in Calls |-> <<>>]
  /\ steps = [c \in Calls |-> <<>>]
  /\ step_results = [c \in Calls |-> <<>>]
  /\ accumulated_context = [c \in Calls |-> EmptyStr]
  /\ i = [c \in Calls |-> 0]
  /\ result = [c \in Calls |-> NoAnswer]
  /\ final_answer = [c \in Calls |-> NoAnswer]
  /\ agent_calls = [c \in Calls |-> <<>>]
  /\ warnings = [c \in Calls |-> <<>>]

(***************************************************************************)
(* Steps of forward.                                                       *)
(***************************************************************************)
\* forward(question) is entered and calls the planner (lines 346-351).
CallPlanner(c, q) ==
  /\ pc[c] = "idle"
  /\ pc' = [pc EXCEPT ![c] = "planning"]
  /\ question' = [question EXCEPT ![c] = q]
  /\ UNCHANGED <<agents, plan_result, steps, step_results,
                 accumulated_context, i, result, final_answer, agent_calls,
                 warnings>>

\* The planner returns a raw plan (line 348).
PlannerReturns(c, raw) ==
  /\ pc[c] = "planning"
  /\ pc' = [pc EXCEPT ![c] = "validate"]
  /\ plan_result' = [plan_result EXCEPT ![c] = raw]
  /\ UNCHANGED <<agents, question, steps, step_results,
                 accumulated_context, i, result, final_answer, agent_calls,
                 warnings>>

\* The planner call raises (line 348); forward has no handler, the exception
\* leaves it before anything is bound.
PlannerRaises(c) ==
  /\ pc[c] = "planning"
  /\ pc' = [pc EXCEPT ![c] = "planner_raised"]
  /\ UNCHANGED <<agents, question, plan_result, steps, step_results,
                 accumulated_context, i, result, final_answer, agent_calls,
                 warnings>>

\* Conversion, fallback and loop initialisation (lines 353-374).  When
\* .lower() raises on a raw step (line 356) the exception leaves forward:
\* the warnings of the earlier steps are printed, nothing else is bound.
ValidatePlan(c) ==
  /\ pc[c] = "validate"
  /\ LET bad == FirstRaising(plan_result[c]) IN
     IF bad # 0
     THEN /\ warnings' = [warnings EXCEPT ![c] =
                ConversionWarnings(SubSeq(plan_result[c], 1, bad - 1), agents)]
          /\ pc' = [pc EXCEPT ![c] = "validation_raised"]
          /\ UNCHANGED <<steps, step_results, accumulated_context, i>>
     ELSE /\ steps' = [steps EXCEPT ![c] =
                Validate(plan_result[c], question[c], agents)]
          /\ step_results' = [step_results EXCEPT ![c] = <<>>]
          /\ accumulated_context' = [accumulated_context EXCEPT ![c] = EmptyStr]
          /\ i' = [i EXCEPT ![c] = 0]
          /\ warnings' = [warnings EXCEPT ![c] =
                ValidationWarnings(plan_result[c], agents)]
          /\ pc' = [pc EXCEPT ![c] = "loop"]
  /\ UNCHANGED <<agents, question, plan_result, result, final_answer,
                 agent_calls>>

\* agent = self.agents[step.intent]; agent(question=..., context=...)
\* (lines 377-378).  A missing key raises KeyError.
InvokeAgent(c) ==
  /\ pc[c] = "loop"
  /\ ~LoopDone(i[c], steps[c])
  /\ LET step == steps[c][i[c] + 1]
     IN IF step.intent \in DOMAIN agents
        THEN /\ agent_calls' = [agent_calls EXCEPT ![c] = Append(@,
                  [agent |-> agents[step.intent], question |-> step.subquery,
                   context |-> accumulated_context[c],
                   react_context |-> ReactContext(accumulated_context[c]),
                   answer |-> NoAnswer, returned |-> FALSE])]
             /\ pc' = [pc EXCEPT ![c] = "in_agent"]
        ELSE /\ pc' = [pc EXCEPT ![c] = "key_error"]
             /\ UNCHANGED agent_calls
  /\ UNCHANGED <<agents, question, plan_result, steps, step_results,
                 accumulated_context, i, result, final_answer,
                 warnings>>

\* The agent returns a Prediction with an answer (line 378).
AgentReturns(c, ans) ==
  /\ pc[c] = "in_agent"
  /\ result' = [result EXCEPT ![c] = ans]
  /\ agent_calls' = [agent_calls EXCEPT ![c][Len(agent_calls[c])] =
        [@ EXCEPT !.answer = ans, !.returned = TRUE]]
  /\ pc' = [pc EXCEPT ![c] = "append_result"]
  /\ UNCHANGED <<agents, question, plan_result, steps, step_results,
                 accumulated_context, i, final_answer,
                 warnings>>

\* The agent call raises; forward has no handler, the exception leaves it.
AgentRaises(c) ==
  /\ pc[c] = "in_agent"
  /\ pc' = [pc EXCEPT ![c] = "raised"]
  /\ UNCHANGED <<agents, question, plan_result, steps, step_results,
                 accumulated_context, i, result, final_answer, agent_calls,
                 warnings>>

\* step_results.append({...}) (lines 379-383).
AppendResult(c) ==
  /\ pc[c] = "append_result"
  /\ step_results' = [step_results EXCEPT ![c] =
        Append(@, StepResult(i[c], steps[c][i[c] + 1], result[c]))]
  /\ pc' = [pc EXCEPT ![c] = "append_context"]
  /\ UNCHANGED <<agents, question, plan_result, steps, accumulated_context,
                 i, result, final_answer, agent_calls,
                 warnings>>

\* AppendContext on a context kept on the orchestrator object: the one
\* value is seen by every call.
AppendContextShared(c) ==
  /\ pc[c] = "append_context"
  /\ accumulated_context' = [d \in Calls |->
        ExtendContext(accumulated_context[c], i[c], steps[c][i[c] + 1],
                      result[c])]
  /\ i' = [i EXCEPT ![c] = @ + 1]
  /\ pc' = [pc EXCEPT ![c] = "loop"]
  /\ UNCHANGED <<agents, question, plan_result, steps, step_results,
                 result, final_answer, agent_calls, warnings>>

\* accumulated_context += ...; the loop advances (lines 386, 376).
AppendContext(c) ==
  /\ pc[c] = "append_context"
  /\ accumulated_context' = [accumulated_context EXCEPT ![c] =
        ExtendContext(@, i[c], steps[c][i[c] + 1], result[c])]
  /\ i' = [i EXCEPT ![c] = @ + 1]
  /\ pc' = [pc EXCEPT ![c] = "loop"]
  /\ UNCHANGED <<agents, question, plan_result, steps, step_results,
                 result, final_answer, agent_calls,
                 warnings>>

\* Synthesis and return (lines 388-402).
SynthesizeAnswer(c) ==
  /\ pc[c] = "loop"
  /\ LoopDone(i[c], steps[c])
  /\ final_answer' = [final_answer EXCEPT ![c] = Synthesize(step_results[c])]
  /\ pc' = [pc EXCEPT ![c] = "done"]
  /\ UNCHANGED <<agents, question, plan_result, steps, step_results,
                 accumulated_context, i, result, agent_calls,
                 warnings>>

Forward(c) ==
  \/ \E q \in Questions : CallPlanner(c, q)
  \/ \E raw \in RawPlans : PlannerReturns(c, raw)
  \/ PlannerRaises(c)
  \/ ValidatePlan(c)
  \/ InvokeAgent(c)
  \/ \E ans \in Answers : AgentReturns(c, ans)
  \/ AgentRaises(c)
  \/ AppendResult(c)
  \/ AppendContext(c)
  \/ SynthesizeAnswer(c)

\* One orchestration call.
Next == \E c \in SingleCall : Forward(c)

Spec == Init /\ [][Next]_vars

\* forward as run by one of two concurrent calls on the same orchestrator.
ForwardConc(c) ==
  \/ CallPlanner(c, ConcQuestion[c])
  \/ \E raw \in ConcPlans : PlannerReturns(c, raw)
  \/ PlannerRaises(c)
  \/ ValidatePlan(c)
  \/ InvokeAgent(c)
  \/ \E ans \in Answers : AgentReturns(c, ans)
  \/ AgentRaises(c)
  \/ AppendResult(c)
  \/ AppendContext(c)
  \/ SynthesizeAnswer(c)

\* Two orchestration calls, their steps interleaved in any order.
NextConc == \E c \in Calls : ForwardConc(c)

SpecConc == Init /\ [][NextConc]_vars

TypeOK ==
  /\ agents = AgentRegistry
  /\ \A c \in Calls :
       pc[c] \in {"idle", "planning", "validate", "loop", "in_agent",
                  "append_result", "append_context", "done", "raised",
                  "key_error", "planner_raised", "validation_raised"}
(***************************************************************************)
(* Properties of plan validation.                                          *)
(***************************************************************************)
\* The call has passed plan validation.
Validated(c) ==
  pc[c] \in {"loop", "in_agent", "append_result", "append_context", "done",
             "raised", "key_error"}

\* The call has returned its Prediction.
Returned(c) == pc[c] = "done"

\* C1: for every raw plan of the planner validation completes without
\* raising, and the plan it yields is non-empty with every intent a key of
\* the agent registry.
C1_ValidationTotal ==
  \A c \in Calls :
    /\ pc[c] # "validation_raised"
    /\ Validated(c) =>
         /\ steps[c] # <<>>
         /\ \A k \in 1..Len(steps[c]) : steps[c][k].intent \in DOMAIN agents

\* The raw step names an intent: the key is present and its value is a text.
HasIntent(step_dict) ==
  "intent" \in DOMAIN step_dict /\ IsStr(step_dict["intent"])
\* The raw step has a subquery.
HasSubquery(step_dict) == "subquery" \in DOMAIN step_dict

\* C2 as stated: a raw step whose intent is not a key of the registry is
\* validated to the default intent, with its subquery unchanged.
C2_UnknownIntentAsStated ==
  \A c \in Calls : Validated(c) =>
    \A k \in 1..Len(plan_result[c]) :
      LET raw == plan_result[c][k] IN
      (HasIntent(raw) /\ raw["intent"].text \notin DOMAIN agents) =>
        /\ steps[c][k].intent = DefaultIntent
        /\ HasSubquery(raw) => steps[c][k].subquery = raw["subquery"]

\* C2 amended: a raw step whose lower-cased intent is not a key of the
\* registry is validated to the default intent "search", and the subquery it
\* carries is kept unchanged.
C2_UnknownIntentRepaired ==
  \A c \in Calls : Validated(c) =>
    \A k \in 1..Len(plan_result[c]) :
      LET raw == plan_result[c][k] IN
      (HasIntent(raw) /\ Lower(raw["intent"].text) \notin DOMAIN agents) =>
        /\ steps[c][k].intent = DefaultIntent
        /\ HasSubquery(raw) => steps[c][k].subquery = raw["subquery"]

\* A validated plan whose raw step named the intent "summarize" with the
\* subquery "find".
C2_Witness ==
  \E c \in Calls :
    /\ Validated(c)
    /\ \E k \in 1..Len(plan_result[c]) :
         /\ HasIntent(plan_result[c][k])
         /\ plan_result[c][k]["intent"] =
              Str(<<"s","u","m","m","a","r","i","z","e">>)
         /\ HasSubquery(plan_result[c][k])
         /\ plan_result[c][k]["subquery"] = Str(<<"f","i","n","d">>)
         /\ steps[c][k] = PlanStep(Str(<<"f","i","n","d">>), SEARCH)

\* C3: an empty raw plan is validated to the single step (question, default
\* intent), and the call returns the answer the default agent gave for the
\* question.
C3_EmptyPlanFallback ==
  \A c \in Calls : (Validated(c) /\ plan_result[c] = <<>>) =>
    /\ steps[c] = <<PlanStep(Str(question[c]), DefaultIntent)>>
    /\ Returned(c) =>
         /\ Len(agent_calls[c]) = 1
         /\ agent_calls[c][1].agent = AgentRegistry[DefaultIntent]
         /\ agent_calls[c][1].question = Str(question[c])
         /\ agent_calls[c][1].returned
         /\ final_answer[c] = agent_calls[c][1].answer

\* A call that returned after the planner gave an empty plan.
C3_Witness ==
  \E c \in Calls :
    /\ Returned(c)
    /\ plan_result[c] = <<>>
    /\ final_answer[c] \in Answers

\* str.strip() would leave nothing: the text is empty or whitespace only.
IsBlank(s) == \A k \in 1..Len(s) : s[k] \in {" ", "\t", "\n"}

\* C4: a raw step whose subquery is missing or blank is validated to a step
\* whose subquery is the question, so no validated subquery is empty when the
\* question is not.
C4_BlankSubqueryReplaced ==
  \A c \in Calls : Validated(c) =>
    /\ \A k \in 1..Len(plan_result[c]) :
         LET raw == plan_result[c][k] IN
         (~HasSubquery(raw) \/ IsBlank(raw["subquery"].text)) =>
           steps[c][k].subquery = Str(question[c])
    /\ question[c] # EmptyStr =>
         \A k \in 1..Len(steps[c]) : steps[c][k].subquery # Str(EmptyStr)
(***************************************************************************)
(* Properties of execution and synthesis.                                  *)
(***************************************************************************)
\* The labeled renderings (step index, intent, answer) of a result log,
\* concatenated in log order.
RECURSIVE RenderedLog(_)
RenderedLog(results) ==
  IF results = <<>> THEN EmptyStr
  ELSE LET n == Len(results) IN
       RenderedLog(SubSeq(results, 1, n - 1))
         \o ContextEntry(results[n].step_id, results[n].step, results[n].answer)

\* C5: the context passed to the agent of step k-1 (the k-th call) is
\* exactly the labeled renderings of the results of the steps before it, in
\* plan order, and nothing else; the context of the first call is empty.
C5_ContextThreading ==
  \A c \in Calls : \A k \in 1..Len(agent_calls[c]) :
    /\ k - 1 <= Len(step_results[c])
    /\ agent_calls[c][k].context = RenderedLog(SubSeq(step_results[c], 1, k - 1))
    /\ k = 1 => agent_calls[c][k].context = EmptyStr

\* The third agent of a plan was called with the renderings of steps 0 and 1.
C5_Witness ==
  \E c \in Calls :
    /\ Len(agent_calls[c]) = 3
    /\ agent_calls[c][1].answer = <<"S","1">>
    /\ agent_calls[c][2].answer = <<"S","2">>
    /\ steps[c][1].intent = RETRIEVE
    /\ steps[c][2].intent = SEARCH
    /\ agent_calls[c][3].context =
         <<"\n","S","t","e","p"," ","0"," ","(","r","e","t","r","i","e","v","e",
           ")",":"," ","S","1","\n",
           "\n","S","t","e","p"," ","1"," ","(","s","e","a","r","c","h",
           ")",":"," ","S","2","\n">>

\* C6: a call whose validated plan has one step returns that step's agent
\* answer, character for character.
C6_SingleStepVerbatim ==
  \A c \in Calls : (Returned(c) /\ Len(steps[c]) = 1) =>
    /\ Len(agent_calls[c]) = 1
    /\ final_answer[c] = agent_calls[c][1].answer

\* A call that returned from a one-step retrieve plan of the planner.
C6_Witness ==
  \E c \in Calls :
    /\ Returned(c)
    /\ Len(plan_result[c]) = 1
    /\ steps[c][1].intent = RETRIEVE
    /\ final_answer[c] = <<"S","2">>

\* "<INTENT-UPPERCASE>: <answer>".
PlainLabel(intent, answer) == Upper(intent) \o <<":"," ">> \o answer
\* "**<INTENT-UPPERCASE>**: <answer>".
BoldLabel(intent, answer) ==
  <<"*","*">> \o Upper(intent) \o <<"*","*",":"," ">> \o answer

\* C7 as stated: with two or more steps the final answer is the renderings
\* "<INTENT-UPPERCASE>: <answer>" joined by "\n\n" in plan order.
C7_PlainLabelsAsStated ==
  \A c \in Calls : (Returned(c) /\ Len(steps[c]) >= 2) =>
    final_answer[c] =
      Join(<<"\n","\n">>,
           [k \in 1..Len(steps[c]) |->
              PlainLabel(steps[c][k].intent, agent_calls[c][k].answer)])

\* C7 amended: with two or more steps the final answer is the renderings
\* "**<INTENT-UPPERCASE>**: <answer>" of every step result, joined by "\n\n"
\* in plan order; (search -> "S1", retrieve -> "S2") gives
\* "**SEARCH**: S1\n\n**RETRIEVE**: S2".
C7_BoldLabelsInPlanOrder ==
  \A c \in Calls : (Returned(c) /\ Len(steps[c]) >= 2) =>
    /\ Len(agent_calls[c]) = Len(steps[c])
    /\ final_answer[c] =
         Join(<<"\n","\n">>,
              [k \in 1..Len(steps[c]) |->
                 BoldLabel(steps[c][k].intent, agent_calls[c][k].answer)])
    /\ ( /\ Len(steps[c]) = 2
         /\ steps[c][1].intent = SEARCH /\ agent_calls[c][1].answer = <<"S","1">>
         /\ steps[c][2].intent = RETRIEVE /\ agent_calls[c][2].answer = <<"S","2">> )
       => final_answer[c] =
            <<"*","*","S","E","A","R","C","H","*","*",":"," ","S","1","\n","\n",
              "*","*","R","E","T","R","I","E","V","E","*","*",":"," ","S","2">>

\* The call of scenario B returned.
C7_Witness ==
  \E c \in Calls :
    /\ Returned(c)
    /\ Len(steps[c]) = 2
    /\ steps[c][1].intent = SEARCH /\ step_results[c][1].answer = <<"S","1">>
    /\ steps[c][2].intent = RETRIEVE /\ step_results[c][2].answer = <<"S","2">>

\* C8: a failing agent call does not abort the orchestration call.
C8_AgentFailureTolerated ==
  \A c \in Calls : pc[c] # "raised"

\* C9: when the call returns, every step of the plan has been executed
\* exactly once: the result log is as long as the plan and its entry at
\* position k has step index k (0-based), holds plan step k and the answer
\* of the agent registered for that step's intent.
C9_OneResultPerStep ==
  \A c \in Calls : Returned(c) =>
    /\ Len(step_results[c]) = Len(steps[c])
    /\ Len(agent_calls[c]) = Len(steps[c])
    /\ \A k \in 1..Len(steps[c]) :
         /\ step_results[c][k].step_id = k - 1
         /\ step_results[c][k].step = steps[c][k]
         /\ agent_calls[c][k].agent = AgentRegistry[steps[c][k].intent]
         /\ agent_calls[c][k].question = steps[c][k].subquery
         /\ agent_calls[c][k].returned
         /\ step_results[c][k].answer = agent_calls[c][k].answer

\* A call that returned from a plan with the same intent in both steps and
\* different answers.
C9_Witness ==
  \E c \in Calls :
    /\ Returned(c)
    /\ Len(steps[c]) = 2
    /\ steps[c][1].intent = ANALYZE
    /\ steps[c][2].intent = ANALYZE
    /\ step_results[c][1].answer # step_results[c][2].answer

\* C10: an agent is invoked only when every earlier agent call has
\* returned, its result is in the result log and its rendering is in the
\* accumulated context; synthesis starts only when the result of the last
\* step is logged.
C10_StrictlySequential ==
  [][\A c \in Calls :
       LET n == Len(agent_calls[c]) IN
       /\ Len(agent_calls'[c]) > n =>
            /\ n = i[c]
            /\ \A k \in 1..n : agent_calls[c][k].returned
            /\ Len(step_results[c]) = n
            /\ accumulated_context[c] = RenderedLog(step_results[c])
       /\ (pc[c] # "done" /\ pc'[c] = "done") =>
            /\ n = Len(steps[c])
            /\ Len(step_results[c]) = Len(steps[c])
            /\ \A k \in 1..n : agent_calls[c][k].returned]_vars

\* The agent of the third step is running.
C10_Witness ==
  \E c \in Calls :
    /\ pc[c] = "in_agent"
    /\ i[c] = 2
    /\ Len(step_results[c]) = 2
(***************************************************************************)
(* Shape of the validated plan and case of the intents.                    *)
(***************************************************************************)
\* C12: validation of a non-empty raw plan neither drops, adds nor reorders
\* steps: the validated plan is as long as the raw plan, step k keeps the
\* subquery of raw step k when it has one and its intent when that is a
\* registry key, and equal raw steps give equal validated steps.
C12_StepsPreserved ==
  \A c \in Calls : (Validated(c) /\ plan_result[c] # <<>>) =>
    /\ Len(steps[c]) = Len(plan_result[c])
    /\ \A k \in 1..Len(plan_result[c]) :
         LET raw == plan_result[c][k] IN
         /\ HasSubquery(raw) => steps[c][k].subquery = raw["subquery"]
         /\ (HasIntent(raw) /\ raw["intent"].text \in DOMAIN agents) =>
              steps[c][k].intent = raw["intent"].text
         /\ \A l \in 1..Len(plan_result[c]) :
              plan_result[c][l] = raw => steps[c][l] = steps[c][k]

\* A validated two-step plan whose raw steps were (retrieve, "find") and
\* then an unknown intent with an empty subquery.
C12_Witness ==
  \E c \in Calls :
    /\ Validated(c)
    /\ Len(plan_result[c]) = 2
    /\ HasIntent(plan_result[c][1])
    /\ plan_result[c][1]["intent"] = Str(RETRIEVE)
    /\ HasSubquery(plan_result[c][1])
    /\ plan_result[c][1]["subquery"] = Str(<<"f","i","n","d">>)
    /\ HasIntent(plan_result[c][2])
    /\ plan_result[c][2]["intent"].text \notin DOMAIN agents
    /\ HasSubquery(plan_result[c][2])
    /\ plan_result[c][2]["subquery"] = Str(EmptyStr)
    /\ steps[c][1] = PlanStep(Str(<<"f","i","n","d">>), RETRIEVE)

\* The two texts are equal up to the case of their letters.
SameIgnoringCase(a, b) ==
  /\ Len(a) = Len(b)
  /\ \A k \in 1..Len(a) :
       \/ a[k] = b[k]
       \/ \E n \in 1..26 : {a[k], b[k]} = {LowerChars[n], UpperChars[n]}

\* C13: a raw intent that equals a registry key up to letter case is
\* validated to that key and routed to that key's agent; a raw intent is
\* replaced by the default only when it equals no key up to letter case.
C13_CaseInsensitiveIntent ==
  \A c \in Calls : Validated(c) =>
    \A k \in 1..Len(plan_result[c]) :
      LET raw == plan_result[c][k] IN
      HasIntent(raw) =>
        /\ \A key \in DOMAIN agents : SameIgnoringCase(raw["intent"].text, key) =>
             /\ steps[c][k].intent = key
             /\ k <= Len(agent_calls[c]) =>
                  agent_calls[c][k].agent = AgentRegistry[key]
        /\ (~ \E key \in DOMAIN agents : SameIgnoringCase(raw["intent"].text, key)) =>
             steps[c][k].intent = DefaultIntent
        /\ raw["intent"] = Str(<<"A","n","a","l","y","z","e">>) =>
             steps[c][k].intent = ANALYZE

\* The agent of a step whose raw intent was "Analyze" has been called.
C13_Witness ==
  \E c \in Calls :
    /\ Len(plan_result[c]) >= 1
    /\ HasIntent(plan_result[c][1])
    /\ plan_result[c][1]["intent"] = Str(<<"A","n","a","l","y","z","e">>)
    /\ Len(agent_calls[c]) >= 1
    /\ agent_calls[c][1].agent = "AnalyzeAgent"
(***************************************************************************)
(* Concurrent calls.                                                       *)
(***************************************************************************)
\* The answer a call returns when it runs alone with the same plan and the
\* same agent answers: the only answer, or the labeled answers joined.
SoloAnswer(c) ==
  IF Len(steps[c]) = 1 THEN agent_calls[c][1].answer
  ELSE Join(<<"\n","\n">>,
            [k \in 1..Len(steps[c]) |->
               BoldLabel(steps[c][k].intent, agent_calls[c][k].answer)])

\* The subqueries a call can execute: its question and those of its raw plan.
OwnSubqueries(c) ==
  {Str(question[c])} \cup
  { plan_result[c][k]["subquery"] :
      k \in {n \in 1..Len(plan_result[c]) : HasSubquery(plan_result[c][n])} }

\* C11: under every interleaving of two calls on the same orchestrator the
\* registry stays as constructed, and the plan, the result log, the
\* accumulated context and the agent arguments of each call are made of its
\* own question, raw plan and agent answers only; a call that returns
\* returns the answer it returns when run alone.
C11_CallsIndependent ==
  /\ agents = AgentRegistry
  /\ \A c \in Calls : Validated(c) =>
       /\ question[c] = ConcQuestion[c]
       /\ Len(steps[c]) = (IF plan_result[c] = <<>> THEN 1 ELSE Len(plan_result[c]))
       /\ \A k \in 1..Len(steps[c]) : steps[c][k].subquery \in OwnSubqueries(c)
       /\ Len(step_results[c]) <= Len(agent_calls[c])
       /\ \A k \in 1..Len(step_results[c]) :
            /\ step_results[c][k].step_id = k - 1
            /\ step_results[c][k].step = steps[c][k]
            /\ step_results[c][k].answer = agent_calls[c][k].answer
       /\ \A k \in 1..Len(agent_calls[c]) :
            /\ agent_calls[c][k].question = steps[c][k].subquery
            /\ agent_calls[c][k].context =
                 RenderedLog(SubSeq(step_results[c], 1, k - 1))
       /\ accumulated_context[c] = RenderedLog(SubSeq(step_results[c], 1, i[c]))
       /\ Returned(c) =>
            /\ Len(step_results[c]) = Len(steps[c])
            /\ final_answer[c] = SoloAnswer(c)

\* Both calls are inside the agent of their second step, with different
\* first answers and different first subqueries.
C11_Witness ==
  /\ pc[1] = "in_agent" /\ pc[2] = "in_agent"
  /\ i[1] = 1 /\ i[2] = 1
  /\ step_results[1][1].answer # step_results[2][1].answer
  /\ steps[1][1].subquery = Str(ConcQuestion[1])
  /\ steps[2][1].subquery = Str(ConcQuestion[2])
====
